---- MODULE Spec2Model ----
(***************************************************************************)
(* Model of the PDF report handler of src/pdf_server_render.py:            *)
(* generate_pdf (POST /generate-pdf) and download_image_from_url.          *)
(*                                                                         *)
(* Every call of generate_pdf is a process with its own request record     *)
(* (log_data), its own element list (elements), buffer and position (pc).  *)
(* One action models one block of the handler; an exception raised in a    *)
(* block moves the call to the handler's except clause.                    *)
(*                                                                         *)
(* Strings the code inspects are sequences of chunks: a category is a      *)
(* sequence of letters, a logo URL and a description are sequences of      *)
(* tokens, an images entry is a sequence over "A" (a chunk of base64 of a  *)
(* valid picture), "x" (a chunk that is not) and "," (a comma).            *)
(***************************************************************************)
EXTENDS Integers, Sequences, FiniteSets, TLC

VARIABLES log_data, pc, elements, buffer, i, img_data, logo, category_text,
          category_color, exc, response

vars == <<log_data, pc, elements, buffer, i, img_data, logo, category_text,
          category_color, exc, response>>

(***************************************************************************)
(* Bounds                                                                  *)
(***************************************************************************)
MaxImages == 4

MaxConcImages == 1

(***************************************************************************)
(* Request records                                                         *)
(***************************************************************************)
BaseKeys == {"id", "title", "category", "location", "description",
             "date", "time", "author"}

LogRecordKeys == {"id", "title", "category", "location", "description",
                  "createdBy", "timestamp", "images"}

Rec(keys, nulls, id, cat, desc, url, imgs) ==
    [json |-> TRUE, keys |-> keys, nulls |-> nulls, id |-> id,
     category |-> cat, description |-> desc, logoUrl |-> url, images |-> imgs]

NonJsonBody ==
    [json |-> FALSE, keys |-> {}, nulls |-> {}, id |-> "", category |-> <<>>,
     description |-> <<>>, logoUrl |-> <<>>, images |-> <<>>]

\* log_data.get(k) is not None
HasValue(r, k) == k \in r.keys /\ k \notin r.nulls

RECURSIVE SeqsUpTo(_, _)
SeqsUpTo(S, n) ==
    IF n = 0 THEN {<<>>}
    ELSE LET shorter == SeqsUpTo(S, n - 1)
         IN  shorter \cup {Append(s, e) : s \in shorter, e \in S}

GoodEntry == <<"A">>
BadEntry == <<"x">>
DataUriEntry == <<"d", ",", "A">>
TwoCommaEntry == <<"d", ",", "A", ",", "x">>

Entries == {GoodEntry, BadEntry, DataUriEntry, TwoCommaEntry}

Categories == {<<"i", "t">>, <<"I", "T">>, <<"I", "t">>, <<"h", "v", "a", "c">>}

RealUrl == <<"https://", "sda", ".png">>
PlaceholderUrl == <<"https://", "YOUR_LOGO", ".png">>

\* the ways a request carries (or does not carry) a logoUrl
LogoCases ==
    { [keys |-> {}, nulls |-> {}, url |-> <<>>],
      [keys |-> {"logoUrl"}, nulls |-> {"logoUrl"}, url |-> <<>>],
      [keys |-> {"logoUrl"}, nulls |-> {}, url |-> <<>>],
      [keys |-> {"logoUrl"}, nulls |-> {}, url |-> PlaceholderUrl],
      [keys |-> {"logoUrl"}, nulls |-> {}, url |-> RealUrl] }

\* the ways a request carries (or does not carry) images
ImageCases(lists) ==
    { [keys |-> {}, nulls |-> {}, imgs |-> <<>>],
      [keys |-> {"images"}, nulls |-> {"images"}, imgs |-> <<>>] }
    \cup { [keys |-> {"images"}, nulls |-> {}, imgs |-> l] : l \in lists }

Description == <<"line1", "\n", "line2">>

\* complete requests, every images list up to the bound
GalleryRecords ==
    { Rec(BaseKeys \cup lc.keys \cup ic.keys, lc.nulls \cup ic.nulls, "L1",
          <<"i", "t">>, Description, lc.url, ic.imgs) :
        lc \in {c \in LogoCases : c.url \in {<<>>, RealUrl}},
        ic \in ImageCases(SeqsUpTo(Entries, MaxImages)) }

KeySets ==
    {BaseKeys, BaseKeys \ {"author"}}
    \cup { BaseKeys \ {k} : k \in BaseKeys \ {"author"} }
    \cup { LogRecordKeys \ {"images"},
           (LogRecordKeys \ {"images"}) \cup {"date", "time"} }

\* requests with missing keys, every category and every logo case
FieldRecords ==
    { Rec(ks \cup lc.keys \cup ic.keys, lc.nulls \cup ic.nulls, "L1",
          cat, Description, lc.url, ic.imgs) :
        ks \in KeySets, cat \in Categories, lc \in LogoCases,
        ic \in ImageCases({<<>>, <<GoodEntry>>, <<BadEntry, GoodEntry>>}) }

Records == GalleryRecords \cup FieldRecords \cup {NonJsonBody}

ConcImageLists == SeqsUpTo({GoodEntry}, MaxConcImages) \cup {<<BadEntry>>}

\* the requests of two concurrent calls
ConcRecords ==
    { Rec(BaseKeys \cup lk \cup {"images"}, {}, ic[1], ic[2], Description,
          RealUrl, imgs) :
        ic \in {<<"L1", <<"i", "t">> >>, <<"L1", <<"I", "T">> >>,
                <<"L2", <<"i", "t">> >>},
        lk \in {{}, {"logoUrl"}},
        imgs \in ConcImageLists }

(***************************************************************************)
(* Flowables                                                               *)
(***************************************************************************)
Flowable(kind, name, n1, n2, text) ==
    [kind |-> kind, name |-> name, i |-> n1, n |-> n2, text |-> text]

Spacer == Flowable("Spacer", "", 0, 0, <<>>)
PageBreak == Flowable("PageBreak", "", 0, 0, <<>>)
Table(name, text) == Flowable("Table", name, 0, 0, text)

(***************************************************************************)
(* String helpers                                                          *)
(***************************************************************************)
\* Python's `tok in s` on a chunked string
Contains(s, tok) == \E k \in DOMAIN s : s[k] = tok

LowerChar(ch) ==
    CASE ch = "I" -> "i"
      [] ch = "T" -> "t"
      [] OTHER -> ch

\* str.lower()
Lower(s) == [k \in DOMAIN s |-> LowerChar(s[k])]

\* str.replace(old, new)
Replace(s, old, new) == [k \in DOMAIN s |-> IF s[k] = old THEN new ELSE s[k]]

\* position of the first comma of s at or after position k, Len(s)+1 if none
RECURSIVE NextComma(_, _)
NextComma(s, k) ==
    IF k > Len(s) THEN Len(s) + 1
    ELSE IF s[k] = "," THEN k
    ELSE NextComma(s, k + 1)

\* str.split(','): the segments between the commas
RECURSIVE Split(_)
Split(s) ==
    LET c == NextComma(s, 1)
    IN  IF c > Len(s) THEN <<s>>
        ELSE <<SubSeq(s, 1, c - 1)>> \o Split(SubSeq(s, c + 1, Len(s)))

\* the string handed to base64.b64decode
Payload(entry) ==
    IF Contains(entry, ",") THEN Split(entry)[2] ELSE entry

\* base64.b64decode and Image(...) both succeed on the payload
Decodes(payload) ==
    /\ payload # <<>>
    /\ \A k \in DOMAIN payload : payload[k] = "A"

(***************************************************************************)
(* Pieces of generate_pdf                                                  *)
(***************************************************************************)
\* the guard without its placeholder test
UsableLogoUrlNoSentinel(r) ==
    /\ HasValue(r, "logoUrl")
    /\ r.logoUrl # <<>>

\* the guard of the logo download
UsableLogoUrl(r) ==
    /\ HasValue(r, "logoUrl")
    /\ r.logoUrl # <<>>
    /\ ~Contains(r.logoUrl, "YOUR_LOGO")

FetchOutcomes == {"none", "bad", "ok"}

IsIt(r) == r.category = <<"i", "t">>

CategoryText(r) ==
    IF IsIt(r) THEN "IT MAINTENANCE REQUEST" ELSE "BUILDING MAINTENANCE REQUEST"

CategoryColor(r) == IF IsIt(r) THEN "#0066cc" ELSE "#cc6600"

\* the guard testing only that the key is there
HasGalleryKeyPresent(r) == "images" \in r.keys

\* the guard of the photo gallery
HasGallery(r) == HasValue(r, "images") /\ Len(r.images) > 0

\* caption numbered by the photos placed so far
CaptionRenumbered(k, imgs) ==
    <<Cardinality({j \in 1..(k + 1) : Decodes(Payload(imgs[j]))}), Len(imgs)>>

\* caption of the photo at 0-based position k of imgs
Caption(k, imgs) == <<k + 1, Len(imgs)>>

PhotoTable(k, imgs) ==
    Flowable("Table", "img_table", Caption(k, imgs)[1], Caption(k, imgs)[2], <<>>)

\* the loop's page break test after the photo at 0-based position k
BreakAfter(k, imgs) == (k + 1) % 2 = 0 /\ k < Len(imgs) - 1

\* what one iteration of the photo loop appends to elements
PhotoBlocks(k, imgs) ==
    IF Decodes(Payload(imgs[k + 1]))
    THEN <<PhotoTable(k, imgs), Spacer>>
         \o (IF BreakAfter(k, imgs) THEN <<PageBreak>> ELSE <<>>)
    ELSE <<>>

FileName(r) == <<"SDA-MaintenanceReport", "-", r.id, ".pdf">>

HeaderBlocks(res) ==
    IF res = "ok" THEN <<Table("header_table", <<>>)>> ELSE <<>>

TitleBlocks == <<Spacer, Table("title_table", <<>>), Spacer>>

RefBlocks(r) ==
    <<Table("ref_table", <<r.id, CategoryText(r), CategoryColor(r)>>), Spacer>>

InfoBlocks(r) ==
    <<Table("info_grid", <<IF "author" \in r.keys THEN "author" ELSE "Unknown">>),
      Spacer>>

IssueBlocks ==
    <<Table("issue_header_table", <<>>),
      Table("issue_content_table", <<"title">>), Spacer>>

LocationBlocks ==
    <<Table("location_header_table", <<>>),
      Table("location_content_table", <<"location">>), Spacer>>

DescriptionBlocks(r) ==
    <<Table("desc_header_table", <<>>),
      Table("desc_content_table", Replace(r.description, "\n", "<br/>"))>>

GalleryHeaderBlocks == <<Spacer, Table("photo_header_table", <<>>), Spacer>>

FooterBlocks(r) == <<Spacer, Table("footer_table", <<r.id>>)>>

\* what a failing doc.build can leave in the buffer
PartialWrites(els) == {<<>>, SubSeq(els, 1, Len(els) - 1)}

NoResponse ==
    [kind |-> "none", status |-> 0, body |-> <<>>, filename |-> <<>>,
     error |-> ""]

\* send_file(buffer, ..., download_name=...)
PdfResponse(body, r) ==
    [kind |-> "pdf", status |-> 200, body |-> body, filename |-> FileName(r),
     error |-> ""]

\* jsonify({'error': str(e)}), 500
ErrorResponse(msg) ==
    [kind |-> "error", status |-> 500, body |-> <<>>, filename |-> <<>>,
     error |-> msg]

\* first key of the sequence ks that log_data[...] does not find, "" if none
RECURSIVE MissingKey(_, _)
MissingKey(r, ks) ==
    IF ks = <<>> THEN ""
    ELSE IF Head(ks) \notin r.keys THEN Head(ks)
    ELSE MissingKey(r, Tail(ks))

\* elements.append(...) on one list shared by all calls
AppendToShared(els, c, blocks) == [d \in DOMAIN els |-> els[d] \o blocks]

\* elements.append(...) on the element list of call c
AppendTo(els, c, blocks) == [els EXCEPT ![c] = @ \o blocks]

(***************************************************************************)
(* Initial states                                                          *)
(***************************************************************************)
InitOf(calls, records) ==
    /\ log_data \in [calls -> records]
    /\ pc = [c \in calls |-> "start"]
    /\ elements = [c \in calls |-> <<>>]
    /\ buffer = [c \in calls |-> <<>>]
    /\ i = [c \in calls |-> 0]
    /\ img_data = [c \in calls |-> <<>>]
    /\ logo = [c \in calls |-> "unset"]
    /\ category_text = [c \in calls |-> ""]
    /\ category_color = [c \in calls |-> ""]
    /\ exc = [c \in calls |-> ""]
    /\ response = [c \in calls |-> NoResponse]

Init == InitOf({1}, Records)

InitConc == InitOf({1, 2}, ConcRecords)

Calls == DOMAIN pc

(***************************************************************************)
(* Steps of one call                                                       *)
(***************************************************************************)
\* the block appends to elements and control moves on
Advance(c, next, blocks) ==
    /\ elements' = AppendTo(elements, c, blocks)
    /\ pc' = [pc EXCEPT ![c] = next]
    /\ UNCHANGED exc

\* the block raises: control moves to the except clause
Raise(c, msg) ==
    /\ exc' = [exc EXCEPT ![c] = msg]
    /\ pc' = [pc EXCEPT ![c] = "except"]
    /\ UNCHANGED elements

\* a block that reads its keys with a default and never raises
SectionTolerant(c, ks, next, blocks) == Advance(c, next, blocks)

\* a block that reads the keys ks with log_data[...] and appends blocks
Section(c, ks, next, blocks) ==
    IF MissingKey(log_data[c], ks) # ""
    THEN Raise(c, MissingKey(log_data[c], ks))
    ELSE Advance(c, next, blocks)

ParseRequest(c) ==
    /\ pc[c] = "start"
    /\ IF log_data[c].json
       THEN Advance(c, "header", <<>>)
       ELSE Raise(c, "BadRequest")
    /\ UNCHANGED <<img_data, log_data, buffer, i, logo, category_text, category_color,
                   response>>

Header(c) ==
    /\ pc[c] = "header"
    /\ IF UsableLogoUrl(log_data[c])
       THEN /\ Advance(c, "fetch", <<>>)
            /\ UNCHANGED logo
       ELSE /\ Advance(c, "title", <<>>)
            /\ logo' = [logo EXCEPT ![c] = "skipped"]
    /\ UNCHANGED <<img_data, log_data, buffer, i, category_text, category_color,
                   response>>

FetchLogo(c) ==
    /\ pc[c] = "fetch"
    /\ \E res \in FetchOutcomes :
         /\ logo' = [logo EXCEPT ![c] = res]
         /\ Advance(c, "title", HeaderBlocks(res))
    /\ UNCHANGED <<img_data, log_data, buffer, i, category_text, category_color,
                   response>>

TitleBanner(c) ==
    /\ pc[c] = "title"
    /\ Advance(c, "ref", TitleBlocks)
    /\ UNCHANGED <<img_data, log_data, buffer, i, logo, category_text, category_color,
                   response>>

RefBox(c) ==
    /\ pc[c] = "ref"
    /\ Section(c, <<"category", "id">>, "info", RefBlocks(log_data[c]))
    /\ IF MissingKey(log_data[c], <<"category">>) = ""
       THEN /\ category_text' =
                 [category_text EXCEPT ![c] = CategoryText(log_data[c])]
            /\ category_color' =
                 [category_color EXCEPT ![c] = CategoryColor(log_data[c])]
       ELSE UNCHANGED <<category_text, category_color>>
    /\ UNCHANGED <<img_data, log_data, buffer, i, logo, response>>

InfoGrid(c) ==
    /\ pc[c] = "info"
    /\ Section(c, <<"date", "time">>, "issue", InfoBlocks(log_data[c]))
    /\ UNCHANGED <<img_data, log_data, buffer, i, logo, category_text, category_color,
                   response>>

IssueSection(c) ==
    /\ pc[c] = "issue"
    /\ Section(c, <<"title">>, "location", IssueBlocks)
    /\ UNCHANGED <<img_data, log_data, buffer, i, logo, category_text, category_color,
                   response>>

LocationSection(c) ==
    /\ pc[c] = "location"
    /\ Section(c, <<"location">>, "description", LocationBlocks)
    /\ UNCHANGED <<img_data, log_data, buffer, i, logo, category_text, category_color,
                   response>>

DescriptionSection(c) ==
    /\ pc[c] = "description"
    /\ Section(c, <<"description">>, "gallery",
               DescriptionBlocks(log_data[c]))
    /\ UNCHANGED <<img_data, log_data, buffer, i, logo, category_text, category_color,
                   response>>

GalleryHeader(c) ==
    /\ pc[c] = "gallery"
    /\ IF HasGallery(log_data[c])
       THEN Advance(c, "photo", GalleryHeaderBlocks)
       ELSE Advance(c, "footer", <<>>)
    /\ i' = [i EXCEPT ![c] = 0]
    /\ UNCHANGED <<img_data, log_data, buffer, logo, category_text, category_color,
                   response>>

\* one iteration of `for i, img_data in enumerate(log_data['images'])`
Photo(c) ==
    /\ pc[c] = "photo"
    /\ i[c] < Len(log_data[c].images)
    /\ Advance(c,
               IF i[c] + 1 < Len(log_data[c].images) THEN "photo" ELSE "footer",
               PhotoBlocks(i[c], log_data[c].images))
    /\ i' = [i EXCEPT ![c] = @ + 1]
    /\ img_data' = [img_data EXCEPT ![c] = Payload(log_data[c].images[i[c] + 1])]
    /\ UNCHANGED <<log_data, buffer, logo, category_text, category_color,
                   response>>

Footer(c) ==
    /\ pc[c] = "footer"
    /\ Section(c, <<"id">>, "build", FooterBlocks(log_data[c]))
    /\ UNCHANGED <<img_data, log_data, buffer, i, logo, category_text, category_color,
                   response>>

\* doc.build(elements) and send_file; the build may raise, leaving any
\* part of the document in the buffer
Build(c) ==
    /\ pc[c] = "build"
    /\ \E ok \in BOOLEAN :
         IF ok
         THEN /\ buffer' = [buffer EXCEPT ![c] = elements[c]]
              /\ response' =
                   [response EXCEPT ![c] = PdfResponse(elements[c], log_data[c])]
              /\ Advance(c, "done", <<>>)
         ELSE /\ \E part \in PartialWrites(elements[c]) :
                   buffer' = [buffer EXCEPT ![c] = part]
              /\ Raise(c, "build")
              /\ UNCHANGED response
    /\ UNCHANGED <<img_data, log_data, i, logo, category_text, category_color>>

\* the except clause of generate_pdf
HandleException(c) ==
    /\ pc[c] = "except"
    /\ response' = [response EXCEPT ![c] = ErrorResponse(exc[c])]
    /\ pc' = [pc EXCEPT ![c] = "done"]
    /\ UNCHANGED <<img_data, log_data, elements, buffer, i, logo, category_text,
                   category_color, exc>>

Step(c) ==
    \/ ParseRequest(c)
    \/ Header(c)
    \/ FetchLogo(c)
    \/ TitleBanner(c)
    \/ RefBox(c)
    \/ InfoGrid(c)
    \/ IssueSection(c)
    \/ LocationSection(c)
    \/ DescriptionSection(c)
    \/ GalleryHeader(c)
    \/ Photo(c)
    \/ Footer(c)
    \/ Build(c)
    \/ HandleException(c)

Next == \E c \in Calls : Step(c)

Spec == Init /\ [][Next]_vars

SpecConc == InitConc /\ [][Next]_vars

TypeOK ==
    /\ \A c \in Calls : pc[c] \in {"start", "header", "fetch", "title", "ref",
                                   "info", "issue", "location", "description",
                                   "gallery", "photo", "footer", "build",
                                   "except", "done"}
    /\ \A c \in Calls : response[c].kind \in {"none", "pdf", "error"}

(***************************************************************************)
(* Properties                                                              *)
(***************************************************************************)
IsPhoto(e) == e.name = "img_table"

IsBreak(e) == e.kind = "PageBreak"

\* the keys generate_pdf reads with log_data[...], in the order it reads them
RequiredKeys == <<"category", "id", "date", "time", "title", "location",
                  "description">>

\* the names of the tables of a document outside header and gallery
FixedNames == <<"title_table", "ref_table", "info_grid", "issue_header_table",
                "issue_content_table", "location_header_table",
                "location_content_table", "desc_header_table",
                "desc_content_table", "footer_table">>

IsFixed(e) == \E k \in DOMAIN FixedNames : e.name = FixedNames[k]

FixedTables(els) ==
    LET sel == SelectSeq(els, IsFixed)
    IN  [k \in DOMAIN sel |-> sel[k].name]

\* the element sequence holds every block from title banner to footer
CompleteDocument(els) ==
    /\ FixedTables(els) = FixedNames
    /\ els[Len(els)].name = "footer_table"

Rendered(c) == pc[c] = "done" /\ response[c].kind = "pdf"

\* 1-based positions of the entries of imgs that decode
DecodedPositions(imgs) ==
    {k \in DOMAIN imgs : Decodes(Payload(imgs[k]))}

\* C1: a request that carries the LogRecord fields id, title, category,
\* location, description, createdBy, timestamp and images is rendered (when
\* the layout engine itself does not fail): the response is a document whose
\* footer holds the id and whose file name is the prefix, '-', the id, '.pdf'.
C1_LogRecordRendered ==
    \A c \in Calls :
        (/\ pc[c] = "done"
         /\ log_data[c].json
         /\ LogRecordKeys \subseteq log_data[c].keys
         /\ exc[c] # "build")
        => /\ response[c].kind = "pdf"
           /\ \E k \in DOMAIN response[c].body :
                /\ response[c].body[k].name = "footer_table"
                /\ Contains(response[c].body[k].text, log_data[c].id)
           /\ response[c].filename =
                <<"SDA-MaintenanceReport", "-", log_data[c].id, ".pdf">>

\* C2: in the element sequence no three photo blocks come without a
\* PageBreak between the first and the third of them.
C2_AtMostTwoPhotosPerPage ==
    \A c \in Calls :
        \A x, y, z \in DOMAIN elements[c] :
            (/\ x < y /\ y < z
             /\ IsPhoto(elements[c][x])
             /\ IsPhoto(elements[c][y])
             /\ IsPhoto(elements[c][z]))
            => \E b \in (x + 1)..(z - 1) : IsBreak(elements[c][b])

\* C3: a rendered document whose images hold N entries that decode has
\* ceil(N/2)-1 PageBreak elements when N >= 1 and none when N = 0.
C3_BreakCount ==
    \A c \in Calls :
        Rendered(c) =>
            LET n == IF HasGallery(log_data[c])
                     THEN Cardinality(DecodedPositions(log_data[c].images))
                     ELSE 0
                breaks == Cardinality({k \in DOMAIN response[c].body :
                                          IsBreak(response[c].body[k])})
            IN  breaks = IF n = 0 THEN 0 ELSE ((n + 1) \div 2) - 1

\* the captions of the photo blocks of els, in order
Captions(els) ==
    LET sel == SelectSeq(els, IsPhoto)
    IN  [k \in DOMAIN sel |-> <<sel[k].i, sel[k].n>>]

\* 'Photo p of N' for the positions p of imgs that decode, in increasing order
ExpectedCaptions(imgs) ==
    LET Ok(p) == p \in DecodedPositions(imgs)
        placed == SelectSeq([p \in DOMAIN imgs |-> p], Ok)
    IN  [k \in DOMAIN placed |-> <<placed[k], Len(imgs)>>]

\* C4: the captions of a rendered document are, in order, 'Photo p of N' for
\* the original 1-based positions p of the entries that decoded, N being the
\* length of images; a failed entry adds none and renumbers none.
C4_CaptionsFollowOriginalPositions ==
    \A c \in Calls :
        (pc[c] \in {"footer", "build"} \/ Rendered(c))
        => Captions(elements[c]) =
             IF HasGallery(log_data[c])
             THEN ExpectedCaptions(log_data[c].images)
             ELSE <<>>

\* a rendered document with a failed entry before a placed one
C4_Witness ==
    \E c \in Calls :
        /\ Rendered(c)
        /\ Len(log_data[c].images) >= 3
        /\ \E p, q \in DOMAIN log_data[c].images :
             /\ p < q
             /\ p \notin DecodedPositions(log_data[c].images)
             /\ q \in DecodedPositions(log_data[c].images)
             /\ <<q, Len(log_data[c].images)>> \in
                  {Captions(response[c].body)[k] :
                     k \in DOMAIN Captions(response[c].body)}

\* C5: without a usable logoUrl (missing, None, empty, placeholder) no fetch
\* is made; without a logo (no fetch, failed download, bytes that are no
\* image) elements holds no header block, and the call still ends with the
\* complete document unless a required key is missing or the build fails.
C5_LogoAbsenceNeverAborts ==
    \A c \in Calls :
        /\ (\/ ~HasValue(log_data[c], "logoUrl")
            \/ log_data[c].logoUrl = <<>>
            \/ Contains(log_data[c].logoUrl, "YOUR_LOGO"))
           => (pc[c] # "fetch" /\ logo[c] \in {"unset", "skipped"})
        /\ logo[c] \in {"unset", "skipped", "none", "bad"}
           => \A k \in DOMAIN elements[c] :
                elements[c][k].name # "header_table"
        /\ (/\ pc[c] = "done"
            /\ logo[c] \in {"skipped", "none", "bad"}
            /\ MissingKey(log_data[c], RequiredKeys) = ""
            /\ exc[c] # "build")
           => /\ response[c].kind = "pdf"
              /\ CompleteDocument(response[c].body)
              /\ response[c].body[1] = Spacer

\* a document returned after the logo download failed
C5_Witness ==
    \E c \in Calls :
        /\ Rendered(c)
        /\ logo[c] = "none"
        /\ CompleteDocument(response[c].body)

\* C6: a finished call has answered either with the PDF of the complete
\* element sequence or with a 500 error object carrying the exception's
\* message and no document; a non-JSON body, a missing required key or a
\* failing build gives the error; an unfinished call has answered nothing.
C6_PdfOrError ==
    \A c \in Calls :
        /\ pc[c] # "done" => response[c] = NoResponse
        /\ pc[c] = "done" =>
             \/ /\ response[c].kind = "pdf"
                /\ response[c].status = 200
                /\ exc[c] = ""
                /\ response[c].body = elements[c]
                /\ CompleteDocument(response[c].body)
                /\ log_data[c].json
                /\ MissingKey(log_data[c], RequiredKeys) = ""
             \/ /\ response[c].kind = "error"
                /\ response[c].status = 500
                /\ exc[c] # ""
                /\ response[c].error = exc[c]
                /\ response[c].body = <<>>
                /\ \/ ~log_data[c].json /\ exc[c] = "BadRequest"
                   \/ exc[c] = MissingKey(log_data[c], RequiredKeys)
                   \/ exc[c] = "build"

\* an error answer for a request without 'description', after the earlier
\* blocks were already appended
C6_Witness ==
    \E c \in Calls :
        /\ pc[c] = "done"
        /\ response[c].kind = "error"
        /\ response[c].error = "description"
        /\ Len(elements[c]) > 0

\* C7: two requests that differ only in the letter case of category get the
\* same category label and the same category color.
C7_CategoryCaseInsensitive ==
    \A c, d \in Calls :
        (/\ category_text[c] # ""
         /\ category_text[d] # ""
         /\ Lower(log_data[c].category) = Lower(log_data[d].category)
         /\ [log_data[c] EXCEPT !.category = <<>>] =
              [log_data[d] EXCEPT !.category = <<>>])
        => /\ category_text[c] = category_text[d]
           /\ category_color[c] = category_color[d]

\* C8: without images (absent, None, empty) elements never holds a gallery
\* header, a photo block or a PageBreak; with at least one entry the gallery
\* header is there from the gallery step on, whatever decodes.
C8_GalleryIffImages ==
    \A c \in Calls :
        LET r == log_data[c]
            nonEmpty == "images" \in r.keys /\ "images" \notin r.nulls
                        /\ r.images # <<>>
            header == \E k \in DOMAIN elements[c] :
                         elements[c][k].name = "photo_header_table"
        IN  /\ ~nonEmpty =>
                 /\ ~header
                 /\ \A k \in DOMAIN elements[c] :
                      ~IsPhoto(elements[c][k]) /\ ~IsBreak(elements[c][k])
            /\ (nonEmpty /\ (pc[c] \in {"photo", "footer", "build"}
                             \/ Rendered(c)))
               => header
            /\ header => nonEmpty

\* a rendered document with the gallery header and no photo at all
C8_Witness ==
    \E c \in Calls :
        /\ Rendered(c)
        /\ Len(log_data[c].images) >= 2
        /\ DecodedPositions(log_data[c].images) = {}
        /\ \E k \in DOMAIN response[c].body :
             response[c].body[k].name = "photo_header_table"
        /\ \A k \in DOMAIN response[c].body : ~IsPhoto(response[c].body[k])

\* the photo loop run alone from 0-based position k to the end of imgs
RECURSIVE GalleryFrom(_, _)
GalleryFrom(k, imgs) ==
    IF k >= Len(imgs) THEN <<>>
    ELSE PhotoBlocks(k, imgs) \o GalleryFrom(k + 1, imgs)

\* the element sequence of a call that runs alone on request r with logo
\* fetch outcome res
ElementsAlone(r, res) ==
    HeaderBlocks(res) \o TitleBlocks \o RefBlocks(r) \o InfoBlocks(r)
    \o IssueBlocks \o LocationBlocks \o DescriptionBlocks(r)
    \o (IF HasGallery(r)
        THEN GalleryHeaderBlocks \o GalleryFrom(0, r.images)
        ELSE <<>>)
    \o FooterBlocks(r)

\* the answer of a call that runs alone
ResponseAlone(r, res, built) ==
    IF ~r.json THEN ErrorResponse("BadRequest")
    ELSE IF MissingKey(r, RequiredKeys) # ""
    THEN ErrorResponse(MissingKey(r, RequiredKeys))
    ELSE IF ~built THEN ErrorResponse("build")
    ELSE PdfResponse(ElementsAlone(r, res), r)

IsPrefix(a, b) == Len(a) <= Len(b) /\ SubSeq(b, 1, Len(a)) = a

\* everything call c holds
Local(c) ==
    <<log_data[c], pc[c], elements[c], buffer[c], i[c], img_data[c], logo[c],
      category_text[c], category_color[c], exc[c], response[c]>>

\* what call c holds is what it would hold had it run alone on its request
OwnRequestOnly ==
    \A c \in Calls :
        /\ logo[c] = "unset" => elements[c] = <<>>
        /\ logo[c] # "unset"
           => IsPrefix(elements[c], ElementsAlone(log_data[c], logo[c]))
        /\ IsPrefix(buffer[c], elements[c])
        /\ pc[c] = "done"
           => response[c] =
                ResponseAlone(log_data[c], logo[c], exc[c] # "build")

\* a step leaves every call but one as it was
OneCallPerStep ==
    \E c \in Calls : \A d \in Calls \ {c} : Local(d)' = Local(d)

\* C9: concurrent calls do not interfere: in every interleaving each call's
\* elements, buffer and answer are those of the same call run alone on its
\* own request and logo fetch outcome, and no step of one call changes what
\* another call holds.
C9_CallsDoNotInterfere == []OwnRequestOnly /\ [][OneCallPerStep]_vars

\* two calls on different requests, both in flight with all their blocks
\* appended, one with its logo and one whose download failed
C9_Witness ==
    /\ Calls = {1, 2}
    /\ pc[1] = "build"
    /\ pc[2] = "build"
    /\ log_data[1].id # log_data[2].id
    /\ logo[1] = "ok"
    /\ logo[2] = "none"
    /\ elements[1] # elements[2]

\* C10: in a rendered document every PageBreak is followed by a later photo
\* block.
C10_NoBreakAfterLastPhoto ==
    \A c \in Calls :
        Rendered(c) =>
            \A b \in DOMAIN response[c].body :
                IsBreak(response[c].body[b])
                => \E k \in (b + 1)..Len(response[c].body) :
                     IsPhoto(response[c].body[k])

\* everything of s after its first comma
AfterFirstComma(s) == SubSeq(s, NextComma(s, 1) + 1, Len(s))

\* the entry the last finished iteration of the photo loop worked on
LastEntry(c) == log_data[c].images[i[c]]

\* C11: the payload handed to base64 decoding is, for an entry with at least
\* one comma, everything after its first comma (also when it holds two or
\* more commas), and the whole entry when it holds no comma.
C11_PayloadIsRemainderAfterFirstComma ==
    \A c \in Calls :
        i[c] >= 1 =>
            img_data[c] = IF Contains(LastEntry(c), ",")
                          THEN AfterFirstComma(LastEntry(c))
                          ELSE LastEntry(c)

====
